---------------------------- MODULE Spec2Model ----------------------------
(***************************************************************************)
(* State-machine model of Vision (src/src/index.ts): a Telegram-to-agent   *)
(* bridge with persistent sessions, an alert mailbox and cron jobs         *)
(* materialised from a checklist document.                                 *)
(*                                                                         *)
(* The program runs on one event loop.  A handler runs without             *)
(* interruption up to its next await; every await is a suspension point    *)
(* at which other handlers and timers may run.  Each action below is one   *)
(* such uninterrupted stretch of code.  The source takes no lock of its    *)
(* own: an update is handed to its handler when it arrives, whether or not *)
(* the handler of an earlier update has returned.                          *)
(*                                                                         *)
(* The specifications share the variables:                                 *)
(*   SpecChat       inbound updates (text messages, /reset)                *)
(*   SpecAlert      the alert mailbox, its producers and the sweep timer   *)
(*   SpecCron       checklist reconciliation and cron-job execution        *)
(*   SpecHeartbeat  heartbeat runs, from the timer and from /heartbeat     *)
(*   SpecCommands   inbound updates of every kind, with the commands       *)
(*   SpecProgress   SpecChat while time passes                             *)
(*   SpecHistory    addToHistory and getSessionId on a long history.jsonl  *)
(*   SpecLoad       the load functions on missing and unparseable files    *)
(*   SpecWriters    handlers and cron runs that write the stores           *)
(***************************************************************************)
EXTENDS Naturals, Sequences, FiniteSets, TLC

VARIABLES
    history,       \* history.jsonl: the sequence of Message records
    turns,         \* every Message addToHistory was given, in order (auxiliary)
    sessionStore,  \* the Map chatId -> sessionId (volatile)
    nextUpdate,    \* arrival number of the next inbound update
    handlers,      \* one record per inbound update: its handler's locals and position
    alertsExists,  \* whether ALERTS.txt exists
    alertsFile,    \* the content of ALERTS.txt: the appended alerts, in order
    nextAlert,     \* number of the next alert a producer appends
    nextSweep,     \* number of the next firing of the alert-sweep timer
    sweeps,        \* one record per firing: checkForAlerts' locals and position
    delivered,     \* the alert messages the recipient has received, in order
    checklist,     \* the directives of HEARTBEAT.md as the last reconciliation read them
    cronJobs,      \* cron-state.json: the list of CronJob records
    scheduled,     \* the jobs captured by the cron.schedule callbacks of this process
    nextRun,       \* number of the next firing of a cron callback
    runs,          \* one record per firing: executeCronTask's locals and position
    clock,         \* the time new Date() returns
    heartbeatState,\* heartbeat-state.json: whether it exists, and its lastRun
    nextBeat,      \* number of the next call of runHeartbeat
    beats,         \* one record per call: runHeartbeat's locals and position
    files,         \* the backing files a reader of the stores finds
    loaded         \* what the load functions made of them

chatVars == <<history, turns, sessionStore, nextUpdate, handlers>>

alertVars == <<alertsExists, alertsFile, nextAlert, nextSweep, sweeps, delivered>>

cronVars == <<checklist, cronJobs, scheduled, nextRun, runs, clock>>

heartbeatVars == <<heartbeatState, nextBeat, beats>>

loadVars == <<files, loaded>>

vars == <<chatVars, alertVars, cronVars, heartbeatVars, loadVars>>

---------------------------------------------------------------------------
(* Program constants and bounds *)

ASSISTANT_NAME == "JARVIS"

MAX_HISTORY == 100

\* MY_TG_CHAT_ID, the single entry of ALLOWED_CHAT_IDS
AllowedChat == 42

\* a chat that is not on the allow-list
OtherChat == 99

\* inbound updates handled in one run
MaxUpdates == 2

\* length bound on the aggregated response text (in characters)
MaxResponseLen == 4

ALLOWED_CHAT_IDS == {AllowedChat}

Chats == {AllowedChat, OtherChat}

\* absent session id: undefined in a Message or in the Map, '' in getAgentResponse
NoHandle == ""

Handles == {"s1", "s2"}

\* absent time: a lastRun that was never written, a notification never sent
Never == 0

\* the 5000 ms between two typing actions, in units of the clock (seconds)
QuiescenceWindow == 5

\* the time up to which the clock is followed
MaxClock == 7

\* the times that pass between two steps
Delays == {1, 6}

\* texts of inbound messages
Texts == {"hello", "/start"}

\* text fragments the agent stream yields
Fragments == {"hi"}

\* stream elements: an optional session_id and at most one content block
StreamBlocks == {"none", "tool_use", "text"}

Updates == 1..MaxUpdates

\* alerts appended by producers in one run
MaxAlerts == 3

\* firings of the alert-sweep timer in one run
MaxSweeps == 3

Sweeps == 1..MaxSweeps

\* directives in one checklist document
MaxDirectives == 2

\* firings of cron callbacks over all runs of the process
MaxRuns == 1

Runs == 1..MaxRuns

\* firings of cron callbacks where firings may overlap
MaxOverlappingRuns == 2

OverlappingRuns == 1..MaxOverlappingRuns

AllRuns == Runs \cup OverlappingRuns

\* task texts, as their UTF-8 bytes: "Check email", "Check disk", "Brief"
TaskCheckEmail == <<67, 104, 101, 99, 107, 32, 101, 109, 97, 105, 108>>

TaskCheckDisk == <<67, 104, 101, 99, 107, 32, 100, 105, 115, 107>>

TaskBrief == <<66, 114, 105, 101, 102>>

Directive(schedule, task) == [schedule |-> schedule, task |-> task]

\* the matches of /CRON\[([^\]]+)\]:\s*(.+)/g that documents are built from
Directives ==
    {Directive("0 8 * * *", TaskCheckEmail),
     Directive("0 8 * * *", TaskCheckDisk),
     Directive("soon", TaskBrief)}

Docs == UNION {[1..n -> Directives] : n \in 0..MaxDirectives}

---------------------------------------------------------------------------
(* History *)

\* a Message of history.jsonl (its timestamp is not modelled)
Message(role, content, chatId, sessionId, by) ==
    [role |-> role, content |-> content, chatId |-> chatId,
     sessionId |-> sessionId, by |-> by]

\* the trim of addToHistory, mutated: the oldest MAX_HISTORY turns are kept
RetainOldest(hist) ==
    IF Len(hist) > MAX_HISTORY
    THEN SubSeq(hist, 1, MAX_HISTORY)
    ELSE hist

\* history.splice(0, history.length - MAX_HISTORY)
Retain(hist) ==
    IF Len(hist) > MAX_HISTORY
    THEN SubSeq(hist, Len(hist) - MAX_HISTORY + 1, Len(hist))
    ELSE hist

\* addToHistory: load, push, trim, save (all synchronous).  The field "by" is
\* auxiliary: the arrival number of the update whose handler appended the turn.
addToHistory(hist, role, content, chatId, sessionId, by) ==
    Retain(Append(hist, Message(role, content, chatId, sessionId, by)))

MaxOf(S) == CHOOSE m \in S : \A n \in S : n <= m

\* getSessionId, mutated: the chat of a turn is not compared
getSessionIdAnyChat(hist, store, chatId) ==
    LET carrying == {i \in 1..Len(hist) : hist[i].sessionId # NoHandle}
    IN  IF carrying # {} THEN hist[MaxOf(carrying)].sessionId
        ELSE store[chatId]

\* getSessionId: newest turn of the chat that carries a session id, else the Map
getSessionId(hist, store, chatId) ==
    LET carrying == {i \in 1..Len(hist) :
                        hist[i].chatId = chatId /\ hist[i].sessionId # NoHandle}
    IN  IF carrying # {} THEN hist[MaxOf(carrying)].sessionId
        ELSE store[chatId]

\* clearSession: sessionStore.delete(chatId)
clearSession(store, chatId) == [store EXCEPT ![chatId] = NoHandle]

---------------------------------------------------------------------------
(* Inbound updates *)

IdleHandler ==
    [kind |-> "none", chatId |-> 0, text |-> "", pc |-> "idle",
     sessionId |-> NoHandle, currentSessionId |-> NoHandle,
     finalResponse |-> "", statusMessage |-> FALSE, reply |-> "",
     lastUpdate |-> Never, lastProgress |-> Never]

startsWithSlash(text) == Len(text) > 0 /\ SubSeq(text, 1, 1) = "/"

StartReply == ASSISTANT_NAME \o " ready."

\* finalResponse || 'Done.', mutated: the empty response is passed through
OutputRaw(finalResponse) == finalResponse

\* finalResponse || 'Done.'
Output(finalResponse) == IF finalResponse = "" THEN "Done." ELSE finalResponse

\* `${ASSISTANT_NAME}: ${output}`
Prefixed(output) == ASSISTANT_NAME \o ": " \o output

\* the handler returns: the locals of getAgentResponse are gone, what remains
\* is how it ended and the last reply it sent
Returned(me, pc, reply) ==
    [IdleHandler EXCEPT !.kind = me.kind, !.chatId = me.chatId, !.text = me.text,
                        !.pc = pc, !.reply = reply]

\* bot.command('reset')
ResetCommand(h, c) ==
    /\ h = nextUpdate
    /\ nextUpdate' = nextUpdate + 1
    /\ IF c \notin ALLOWED_CHAT_IDS
       THEN /\ handlers' = [handlers EXCEPT ![h] =
                   [IdleHandler EXCEPT !.kind = "reset", !.chatId = c,
                                       !.pc = "done", !.reply = "Unauthorized."]]
            /\ UNCHANGED sessionStore
       ELSE /\ sessionStore' = clearSession(sessionStore, c)
            /\ handlers' = [handlers EXCEPT ![h] =
                   [IdleHandler EXCEPT !.kind = "reset", !.chatId = c,
                                       !.pc = "done", !.reply = "Session cleared."]]
    /\ UNCHANGED <<history, turns>>
    /\ UNCHANGED <<alertVars, cronVars, heartbeatVars, loadVars>>

\* bot.on('message:text'), mutated: the allow-list is not consulted
TextMessageUnchecked(h, c, t) ==
    /\ h = nextUpdate
    /\ nextUpdate' = nextUpdate + 1
    /\ handlers' = [handlers EXCEPT ![h] =
          LET base == [IdleHandler EXCEPT !.kind = "text", !.chatId = c, !.text = t]
          IN  IF startsWithSlash(t)
              THEN [base EXCEPT !.pc = "done",
                                !.reply = IF t = "/start" THEN StartReply ELSE ""]
              ELSE [base EXCEPT !.pc = "stream",
                                !.sessionId = getSessionId(history, sessionStore, c),
                                !.lastUpdate = clock]]
    /\ UNCHANGED <<history, turns, sessionStore>>
    /\ UNCHANGED <<alertVars, cronVars, heartbeatVars, loadVars>>

\* bot.on('message:text') up to the first await of getAgentResponse
TextMessage(h, c, t) ==
    /\ h = nextUpdate
    /\ nextUpdate' = nextUpdate + 1
    /\ handlers' = [handlers EXCEPT ![h] =
          LET base == [IdleHandler EXCEPT !.kind = "text", !.chatId = c, !.text = t]
          IN  IF c \notin ALLOWED_CHAT_IDS
              THEN [base EXCEPT !.pc = "done", !.reply = "Unauthorized."]
              ELSE IF startsWithSlash(t)
              THEN [base EXCEPT !.pc = "done",
                                !.reply = IF t = "/start" THEN StartReply ELSE ""]
              ELSE [base EXCEPT !.pc = "stream",
                                !.sessionId = getSessionId(history, sessionStore, c),
                                !.lastUpdate = clock]]
    /\ UNCHANGED <<history, turns, sessionStore>>
    /\ UNCHANGED <<alertVars, cronVars, heartbeatVars, loadVars>>

\* one iteration of `for await (const msg of q)` in getAgentResponse: the
\* typing action is sent if more than 5 seconds have passed since the last
\* one, a session_id is remembered, a tool_use block sends or edits the status
\* message, a text block is appended to the response.  The field lastProgress
\* is auxiliary: the time of the last send or edit of the status message.
StreamElement(h, sid, block, frag) ==
    /\ handlers[h].pc = "stream"
    /\ block = "text" =>
          Len(handlers[h].finalResponse) + Len(frag) <= MaxResponseLen
    /\ handlers' = [handlers EXCEPT ![h] =
          [@ EXCEPT !.lastUpdate = IF clock - @ > QuiescenceWindow THEN clock ELSE @,
                    !.currentSessionId = IF sid # NoHandle THEN sid ELSE @,
                    !.statusMessage = IF block = "tool_use" THEN TRUE ELSE @,
                    !.lastProgress = IF block = "tool_use" THEN clock ELSE @,
                    !.finalResponse = IF block = "text" THEN @ \o frag ELSE @]]
    /\ UNCHANGED <<history, turns, sessionStore, nextUpdate>>
    /\ UNCHANGED <<alertVars, cronVars, heartbeatVars, loadVars>>

\* time passes
Tick(d) ==
    /\ clock + d <= MaxClock
    /\ clock' = clock + d
    /\ UNCHANGED <<checklist, cronJobs, scheduled, nextRun, runs>>
    /\ UNCHANGED <<chatVars, alertVars, heartbeatVars, loadVars>>

\* what the handler's catch replies
ErrorReply == ASSISTANT_NAME \o ": Error occurred."

\* the handler of a call whose stream threw.  The session id the call had
\* seen stays in the record (auxiliary).
Failed(me) ==
    [Returned(me, "failed", ErrorReply) EXCEPT !.currentSessionId = me.currentSessionId]

\* the stream throws, mutated: the session id seen so far is stored, as it is
\* at the end of a stream
StreamFailStoresSession(h) ==
    LET me == handlers[h] IN
    /\ me.pc = "stream"
    /\ handlers' = [handlers EXCEPT ![h] = Failed(me)]
    /\ sessionStore' = IF me.currentSessionId # NoHandle
                       THEN [sessionStore EXCEPT ![me.chatId] = me.currentSessionId]
                       ELSE sessionStore
    /\ UNCHANGED <<history, turns, nextUpdate>>
    /\ UNCHANGED <<alertVars, cronVars, heartbeatVars, loadVars>>

\* the stream (or a progress notification inside the loop) throws: the error
\* propagates to the handler's catch, which sends the generic reply
StreamFail(h) ==
    /\ handlers[h].pc = "stream"
    /\ handlers' = [handlers EXCEPT ![h] = Failed(@)]
    /\ UNCHANGED <<history, turns, sessionStore, nextUpdate>>
    /\ UNCHANGED <<alertVars, cronVars, heartbeatVars, loadVars>>

\* the stream ends, mutated: the turn carrying the session id is appended,
\* but an entry the Map already has for the chat is kept
StreamEndKeepsCached(h) ==
    LET me == handlers[h] IN
    /\ me.pc = "stream"
    /\ IF me.currentSessionId # NoHandle
       THEN /\ sessionStore' = IF sessionStore[me.chatId] = NoHandle
                               THEN [sessionStore EXCEPT ![me.chatId] = me.currentSessionId]
                               ELSE sessionStore
            /\ history' = addToHistory(history, "assistant", "", me.chatId,
                                       me.currentSessionId, h)
            /\ turns' = Append(turns, Message("assistant", "", me.chatId,
                                              me.currentSessionId, h))
       ELSE UNCHANGED <<history, turns, sessionStore>>
    /\ handlers' = [handlers EXCEPT ![h].pc = "reply"]
    /\ UNCHANGED nextUpdate
    /\ UNCHANGED <<alertVars, cronVars, heartbeatVars, loadVars>>

\* the stream ends: getAgentResponse from the end of the loop to the await
\* of the final edit/reply
StreamEnd(h) ==
    LET me == handlers[h] IN
    /\ me.pc = "stream"
    /\ IF me.currentSessionId # NoHandle
       THEN /\ sessionStore' = [sessionStore EXCEPT ![me.chatId] = me.currentSessionId]
            /\ history' = addToHistory(history, "assistant", "", me.chatId,
                                       me.currentSessionId, h)
            /\ turns' = Append(turns, Message("assistant", "", me.chatId,
                                              me.currentSessionId, h))
       ELSE UNCHANGED <<history, turns, sessionStore>>
    /\ handlers' = [handlers EXCEPT ![h].pc = "reply"]
    /\ UNCHANGED nextUpdate
    /\ UNCHANGED <<alertVars, cronVars, heartbeatVars, loadVars>>

\* the final reply is delivered; getAgentResponse returns output and the
\* handler records the user turn and the assistant turn
ReplyDone(h) ==
    LET me == handlers[h]
        output == Output(me.finalResponse)
    IN
    /\ me.pc = "reply"
    /\ handlers' = [handlers EXCEPT ![h] = Returned(@, "done", Prefixed(output))]
    /\ history' = addToHistory(
                     addToHistory(history, "user", me.text, me.chatId, NoHandle, h),
                     "assistant", output, me.chatId, NoHandle, h)
    /\ turns' = turns \o <<Message("user", me.text, me.chatId, NoHandle, h),
                           Message("assistant", output, me.chatId, NoHandle, h)>>
    /\ UNCHANGED <<sessionStore, nextUpdate>>
    /\ UNCHANGED <<alertVars, cronVars, heartbeatVars, loadVars>>

\* the final reply throws: getAgentResponse rethrows, the handler's catch
\* sends the generic reply and no turn is recorded
ReplyFail(h) ==
    /\ handlers[h].pc = "reply"
    /\ handlers' = [handlers EXCEPT ![h] = Returned(@, "failed", ErrorReply)]
    /\ UNCHANGED <<history, turns, sessionStore, nextUpdate>>
    /\ UNCHANGED <<alertVars, cronVars, heartbeatVars, loadVars>>

---------------------------------------------------------------------------
(* Alerts *)

IdleSweep == [pc |-> "idle", alerts |-> <<>>]

\* a producer (a tool execution of the agent, as the prompts instruct it)
\* runs `echo "..." >> ALERTS.txt`
AppendAlert ==
    /\ nextAlert <= MaxAlerts
    /\ alertsExists' = TRUE
    /\ alertsFile' = Append(alertsFile, nextAlert)
    /\ nextAlert' = nextAlert + 1
    /\ UNCHANGED <<nextSweep, sweeps, delivered>>
    /\ UNCHANGED <<chatVars, cronVars, heartbeatVars, loadVars>>

\* the setInterval callback of startAlertMonitor fires: checkForAlerts up to
\* the await of bot.api.sendMessage (ALLOWED_CHAT_IDS[0] is set: main() exits
\* otherwise)
SweepFire(s) ==
    /\ s = nextSweep
    /\ nextSweep' = nextSweep + 1
    /\ sweeps' = [sweeps EXCEPT ![s] =
          IF ~alertsExists \/ alertsFile = <<>>
          THEN [pc |-> "skipped", alerts |-> <<>>]
          ELSE [pc |-> "sending", alerts |-> alertsFile]]
    /\ UNCHANGED <<alertsExists, alertsFile, nextAlert, delivered>>
    /\ UNCHANGED <<chatVars, cronVars, heartbeatVars, loadVars>>

\* sendMessage resolves, mutated: one message is sent for each alert read
SendDeliveredOnePerAlert(s) ==
    /\ sweeps[s].pc = "sending"
    /\ delivered' = delivered \o [i \in 1..Len(sweeps[s].alerts) |-> <<sweeps[s].alerts[i]>>]
    /\ alertsFile' = <<>>
    /\ sweeps' = [sweeps EXCEPT ![s] = [pc |-> "sent", alerts |-> <<>>]]
    /\ UNCHANGED <<alertsExists, nextAlert, nextSweep>>
    /\ UNCHANGED <<chatVars, cronVars, heartbeatVars, loadVars>>

\* sendMessage resolves: the recipient has the message, whose body is the
\* content read; the file is cleared
SendDelivered(s) ==
    /\ sweeps[s].pc = "sending"
    /\ delivered' = Append(delivered, sweeps[s].alerts)
    /\ alertsFile' = <<>>
    /\ sweeps' = [sweeps EXCEPT ![s] = [pc |-> "sent", alerts |-> <<>>]]
    /\ UNCHANGED <<alertsExists, nextAlert, nextSweep>>
    /\ UNCHANGED <<chatVars, cronVars, heartbeatVars, loadVars>>

\* sendMessage resolves; writeFileSync throws and the file is left as it is
SendDeliveredTruncateFails(s) ==
    /\ sweeps[s].pc = "sending"
    /\ delivered' = Append(delivered, sweeps[s].alerts)
    /\ sweeps' = [sweeps EXCEPT ![s] = [pc |-> "untruncated", alerts |-> <<>>]]
    /\ UNCHANGED <<alertsExists, alertsFile, nextAlert, nextSweep>>
    /\ UNCHANGED <<chatVars, cronVars, heartbeatVars, loadVars>>

\* sendMessage rejects; the catch logs and the file is cleared all the same
SendFails(s) ==
    /\ sweeps[s].pc = "sending"
    /\ alertsFile' = <<>>
    /\ sweeps' = [sweeps EXCEPT ![s] = [pc |-> "failed", alerts |-> <<>>]]
    /\ UNCHANGED <<alertsExists, nextAlert, nextSweep, delivered>>
    /\ UNCHANGED <<chatVars, cronVars, heartbeatVars, loadVars>>

---------------------------------------------------------------------------
(* Cron *)

\* the '=' of base64 padding
Pad == 64

Min(a, b) == IF a <= b THEN a ELSE b

\* s.slice(0, n)
Slice(s, n) == SubSeq(s, 1, Min(n, Len(s)))

\* Buffer.from(task).toString('base64'), as base64 digit values
RECURSIVE Base64(_)
Base64(bytes) ==
    IF Len(bytes) = 0 THEN <<>>
    ELSE IF Len(bytes) = 1
    THEN <<bytes[1] \div 4, (bytes[1] % 4) * 16, Pad, Pad>>
    ELSE IF Len(bytes) = 2
    THEN <<bytes[1] \div 4,
           (bytes[1] % 4) * 16 + bytes[2] \div 16,
           (bytes[2] % 16) * 4,
           Pad>>
    ELSE <<bytes[1] \div 4,
           (bytes[1] % 4) * 16 + bytes[2] \div 16,
           (bytes[2] % 16) * 4 + bytes[3] \div 64,
           bytes[3] % 64>> \o Base64(SubSeq(bytes, 4, Len(bytes)))

\* `auto-${Buffer.from(task).toString('base64').slice(0, 8)}`
computeJobId(task) == <<"auto-">> \o Slice(Base64(task), 8)

\* the ids of the task texts of the model, computed once
JobIds == [task \in {TaskCheckEmail, TaskCheckDisk, TaskBrief} |-> computeJobId(task)]

jobId(task) == JobIds[task]

\* cron.validate
validate(schedule) == schedule = "0 8 * * *"

\* the CronJob setupCronJobs materialises for a directive
NewJob(d) ==
    [id |-> jobId(d.task), name |-> Slice(d.task, 50), schedule |-> d.schedule,
     task |-> d.task, enabled |-> TRUE, lastRun |-> Never]

\* state.jobs.find(j => j.id === jobId)
Exists(jobs, id) == \E i \in 1..Len(jobs) : jobs[i].id = id

\* the jobs of cron-state.json after setupCronJobs, mutated: the store is
\* rebuilt from the directives of the document
ReconciledFromDocument(jobs, doc) ==
    [i \in 1..Len(doc) |->
        IF Exists(jobs, jobId(doc[i].task))
        THEN jobs[CHOOSE k \in 1..Len(jobs) : jobs[k].id = jobId(doc[i].task)]
        ELSE NewJob(doc[i])]

\* the jobs of cron-state.json after setupCronJobs: for each directive, in
\* order, a new job unless the loaded state holds one with its id; the new
\* jobs are pushed after the loaded ones
Reconciled(jobs, doc) ==
    LET missing(d) == ~Exists(jobs, jobId(d.task))
        newJobs == SelectSeq(doc, missing)
    IN  jobs \o [i \in 1..Len(newJobs) |-> NewJob(newJobs[i])]

\* the jobs setupCronJobs hands to cron.schedule: enabled, valid schedule
Schedulable(jobs) ==
    LET ok(j) == j.enabled /\ validate(j.schedule)
    IN  SelectSeq(jobs, ok)

IdleRun == [pc |-> "idle", job |-> <<>>, promptLastRun |-> Never]

\* setupCronJobs, as main() runs it in a new process whose HEARTBEAT.md holds
\* the directives doc.  The callbacks of the previous process are gone and
\* its executions in flight are killed.
setupCronJobs(doc) ==
    /\ checklist' = doc
    /\ cronJobs' = Reconciled(cronJobs, doc)
    /\ scheduled' = Schedulable(cronJobs')
    /\ runs' = [r \in AllRuns |->
                  IF runs[r].pc = "running"
                  THEN [IdleRun EXCEPT !.pc = "killed"] ELSE runs[r]]
    /\ UNCHANGED <<nextRun, clock>>
    /\ UNCHANGED <<chatVars, alertVars, heartbeatVars, loadVars>>

\* the callback of the k-th scheduled job fires: executeCronTask up to the
\* first await of the stream; the prompt quotes job.lastRun || 'never'
CronFire(r, k) ==
    /\ r = nextRun
    /\ k \in 1..Len(scheduled)
    /\ nextRun' = nextRun + 1
    /\ runs' = [runs EXCEPT ![r] =
          [pc |-> "running", job |-> scheduled[k],
           promptLastRun |-> scheduled[k].lastRun]]
    /\ UNCHANGED <<checklist, cronJobs, scheduled, clock>>
    /\ UNCHANGED <<chatVars, alertVars, heartbeatVars, loadVars>>

\* state.jobs.findIndex(j => j.id === id), 0 for -1
findIndex(jobs, id) ==
    IF Exists(jobs, id)
    THEN CHOOSE i \in 1..Len(jobs) :
            /\ jobs[i].id = id
            /\ \A k \in 1..(i - 1) : jobs[k].id # id
    ELSE 0

\* the stream of the run ends, mutated: what is saved is the list of jobs the
\* callbacks captured when they were scheduled, with the job's lastRun set
CronCompleteFromSchedule(r) ==
    /\ runs[r].pc = "running"
    /\ cronJobs' = [i \in 1..Len(scheduled) |->
                      IF scheduled[i].id = runs[r].job.id
                      THEN [scheduled[i] EXCEPT !.lastRun = clock]
                      ELSE scheduled[i]]
    /\ clock' = clock + 1
    /\ runs' = [runs EXCEPT ![r] = [IdleRun EXCEPT !.pc = "done"]]
    /\ UNCHANGED <<checklist, scheduled, nextRun>>
    /\ UNCHANGED <<chatVars, alertVars, heartbeatVars, loadVars>>

\* the stream of the run ends: the state is loaded, the job's lastRun set
\* and the state saved
CronComplete(r) ==
    LET idx == findIndex(cronJobs, runs[r].job.id) IN
    /\ runs[r].pc = "running"
    /\ cronJobs' = IF idx # 0
                   THEN [cronJobs EXCEPT ![idx].lastRun = clock]
                   ELSE cronJobs
    /\ clock' = clock + 1
    /\ runs' = [runs EXCEPT ![r] = [IdleRun EXCEPT !.pc = "done"]]
    /\ UNCHANGED <<checklist, scheduled, nextRun>>
    /\ UNCHANGED <<chatVars, alertVars, heartbeatVars, loadVars>>

\* the stream of the run throws: the catch logs, nothing is written
CronFail(r) ==
    /\ runs[r].pc = "running"
    /\ runs' = [runs EXCEPT ![r] = [IdleRun EXCEPT !.pc = "failed"]]
    /\ UNCHANGED <<checklist, cronJobs, scheduled, nextRun, clock>>
    /\ UNCHANGED <<chatVars, alertVars, heartbeatVars, loadVars>>

\* a cron-state.json left by earlier runs and edited by hand: one job, disabled
DisabledJob == [NewJob(Directive("0 8 * * *", TaskBrief)) EXCEPT !.enabled = FALSE]

InitialStores == {<<>>, <<DisabledJob>>}

---------------------------------------------------------------------------
(* Backing files *)

\* a backing file as a reader finds it: absent, unparseable, or holding content
File(state, content) == [state |-> state, content |-> content]

\* a load function returned v
Value(v) == [threw |-> FALSE, value |-> v]

\* a load function threw (the SyntaxError of JSON.parse) and returned nothing
Threw(nothing) == [threw |-> TRUE, value |-> nothing]

\* loadHistory: [] without the file, else JSON.parse of each line
loadHistory(file) ==
    IF file.state = "missing" THEN Value(<<>>)
    ELSE IF file.state = "corrupt" THEN Threw(<<>>)
    ELSE Value(file.content)

\* loadCronState: { jobs: [] } without the file, else JSON.parse of the file
loadCronState(file) ==
    IF file.state = "missing" THEN Value(<<>>)
    ELSE IF file.state = "corrupt" THEN Threw(<<>>)
    ELSE Value(file.content)

\* loadHeartbeatState: lastRun is now without the file, else JSON.parse of the file
loadHeartbeatState(file, now) ==
    IF file.state = "missing" THEN Value(now)
    ELSE IF file.state = "corrupt" THEN Threw(Never)
    ELSE Value(file.content)

\* the stores with a backing file
Stores == {"history", "cron", "heartbeat"}

\* the content of no file of store s
Nothing(s) == IF s = "heartbeat" THEN Never ELSE <<>>

NoFiles == [s \in Stores |-> File("missing", Nothing(s))]

NothingLoaded == [s \in Stores |-> <<>>]

\* the load function of a store applied to a file
load(s, file, now) ==
    IF s = "history" THEN loadHistory(file)
    ELSE IF s = "cron" THEN loadCronState(file)
    ELSE loadHeartbeatState(file, now)

---------------------------------------------------------------------------
(* Heartbeat *)

\* calls of runHeartbeat in one run
MaxBeats == 2

Beats == 1..MaxBeats

\* the caller of runHeartbeat when it is a timer of startHeartbeat
Timer == 0

IdleBeat == [pc |-> "idle", lastRun |-> Never, caller |-> Timer]

HeartbeatReply == "Heartbeat check completed."

\* bot.command('heartbeat') up to the await of its first reply
HeartbeatCommand(h, c) ==
    /\ h = nextUpdate
    /\ nextUpdate' = nextUpdate + 1
    /\ handlers' = [handlers EXCEPT ![h] =
          LET base == [IdleHandler EXCEPT !.kind = "heartbeat", !.chatId = c]
          IN  IF c \notin ALLOWED_CHAT_IDS
              THEN [base EXCEPT !.pc = "done", !.reply = "Unauthorized."]
              ELSE [base EXCEPT !.pc = "heartbeat",
                                !.reply = "Running heartbeat check..."]]
    /\ UNCHANGED <<history, turns, sessionStore>>
    /\ UNCHANGED <<alertVars, cronVars, heartbeatVars, loadVars>>

\* what becomes of the handler that awaits runHeartbeat once it has returned
AfterBeat(hs, caller) ==
    IF caller = Timer THEN hs
    ELSE [hs EXCEPT ![caller] = Returned(@, "done", HeartbeatReply)]

\* runHeartbeat is called, by a timer or by the handler of update caller, and
\* runs up to the first await of the stream.  present: HEARTBEAT.md exists
\* and is not blank.  The state is loaded outside the try.
HeartbeatFire(b, caller, present) ==
    LET state == loadHeartbeatState(heartbeatState, clock) IN
    /\ b = nextBeat
    /\ caller # Timer => handlers[caller].pc = "heartbeat"
    /\ nextBeat' = nextBeat + 1
    /\ IF ~present
       THEN /\ beats' = [beats EXCEPT ![b] = [IdleBeat EXCEPT !.pc = "skipped"]]
            /\ handlers' = AfterBeat(handlers, caller)
       ELSE IF state.threw
       THEN /\ beats' = [beats EXCEPT ![b] = [IdleBeat EXCEPT !.pc = "threw"]]
            /\ handlers' = IF caller = Timer THEN handlers
                           ELSE [handlers EXCEPT ![caller] = Returned(@, "threw", "")]
       ELSE /\ beats' = [beats EXCEPT ![b] =
                   [pc |-> "running", lastRun |-> state.value, caller |-> caller]]
            /\ handlers' = IF caller = Timer THEN handlers
                           ELSE [handlers EXCEPT ![caller].pc = "beating"]
    /\ UNCHANGED <<history, turns, sessionStore, nextUpdate, heartbeatState>>
    /\ UNCHANGED <<alertVars, cronVars, loadVars>>

\* the stream of the run ends: state.lastRun is set and the state saved
HeartbeatComplete(b) ==
    /\ beats[b].pc = "running"
    /\ heartbeatState' = File("valid", clock)
    /\ clock' = clock + 1
    /\ beats' = [beats EXCEPT ![b] = [IdleBeat EXCEPT !.pc = "done"]]
    /\ handlers' = AfterBeat(handlers, beats[b].caller)
    /\ UNCHANGED <<history, turns, sessionStore, nextUpdate, nextBeat>>
    /\ UNCHANGED <<checklist, cronJobs, scheduled, nextRun, runs>>
    /\ UNCHANGED <<alertVars, loadVars>>

\* the stream of the run throws: the catch logs, nothing is written
HeartbeatFail(b) ==
    /\ beats[b].pc = "running"
    /\ beats' = [beats EXCEPT ![b] = [IdleBeat EXCEPT !.pc = "failed"]]
    /\ handlers' = AfterBeat(handlers, beats[b].caller)
    /\ UNCHANGED <<history, turns, sessionStore, nextUpdate, nextBeat, heartbeatState>>
    /\ UNCHANGED <<alertVars, cronVars, loadVars>>

\* heartbeat-state.json is left unparseable (a write cut short, an edit)
HeartbeatStateDamaged ==
    /\ heartbeatState.state = "valid"
    /\ heartbeatState' = File("corrupt", Never)
    /\ UNCHANGED <<nextBeat, beats>>
    /\ UNCHANGED <<chatVars, alertVars, cronVars, loadVars>>

---------------------------------------------------------------------------
(* Commands that report *)

\* jobs.filter(j => j.enabled).length
ActiveJobs(jobs) == Cardinality({i \in 1..Len(jobs) : jobs[i].enabled})

\* the status text of /status
StatusReply(sessionId, lastRun, jobs) ==
    "Session: " \o (IF sessionId # NoHandle THEN Slice(sessionId, 8) \o "..." ELSE "none")
    \o " Last heartbeat: " \o ToString(lastRun)
    \o " Cron jobs: " \o ToString(ActiveJobs(jobs)) \o " active"

\* the job list of /cron
CronReply(jobs) ==
    IF Len(jobs) = 0 THEN "No cron jobs configured."
    ELSE "Cron Jobs: " \o ToString([i \in 1..Len(jobs) |->
            <<i, jobs[i].enabled, jobs[i].name, jobs[i].schedule, jobs[i].lastRun>>])

\* bot.command('status'): the whole handler up to the await of its reply
StatusCommand(h, c) ==
    LET base == [IdleHandler EXCEPT !.kind = "status", !.chatId = c]
        state == loadHeartbeatState(heartbeatState, clock)
    IN
    /\ h = nextUpdate
    /\ nextUpdate' = nextUpdate + 1
    /\ handlers' = [handlers EXCEPT ![h] =
          IF c \notin ALLOWED_CHAT_IDS
          THEN [base EXCEPT !.pc = "done", !.reply = "Unauthorized."]
          ELSE IF state.threw
          THEN [base EXCEPT !.pc = "threw"]
          ELSE [base EXCEPT !.pc = "done",
                            !.reply = StatusReply(getSessionId(history, sessionStore, c),
                                                  state.value, cronJobs)]]
    /\ UNCHANGED <<history, turns, sessionStore>>
    /\ UNCHANGED <<alertVars, cronVars, heartbeatVars, loadVars>>

\* bot.command('cron'): the whole handler up to the await of its reply
CronCommand(h, c) ==
    LET base == [IdleHandler EXCEPT !.kind = "cron", !.chatId = c] IN
    /\ h = nextUpdate
    /\ nextUpdate' = nextUpdate + 1
    /\ handlers' = [handlers EXCEPT ![h] =
          IF c \notin ALLOWED_CHAT_IDS
          THEN [base EXCEPT !.pc = "done", !.reply = "Unauthorized."]
          ELSE [base EXCEPT !.pc = "done", !.reply = CronReply(cronJobs)]]
    /\ UNCHANGED <<history, turns, sessionStore>>
    /\ UNCHANGED <<alertVars, cronVars, heartbeatVars, loadVars>>

---------------------------------------------------------------------------
(* The history store on its own *)

\* calls of addToHistory made on a history.jsonl left by earlier runs
MaxAppends == 3

\* a turn of an earlier run
FillerTurn == Message("user", "hello", OtherChat, NoHandle, 0)

\* a turn of an earlier run that carries a session id
HandleTurn == Message("assistant", "", AllowedChat, "s1", 0)

Filler(n) == [i \in 1..n |-> FillerTurn]

\* history.jsonl as earlier runs left it: absent, or close to the limit, its
\* oldest turn carrying a session id or not.  None has been trimmed yet.
InitialHistories ==
    {<<>>}
    \cup {Filler(n) : n \in (MAX_HISTORY - 2)..MAX_HISTORY}
    \cup {<<HandleTurn>> \o Filler(n - 1) : n \in (MAX_HISTORY - 2)..MAX_HISTORY}

\* the session Map with handle h for the allowed chat
Cached(h) == [c \in Chats |-> IF c = AllowedChat THEN h ELSE NoHandle]

\* the session Map of a process whose history.jsonl is hist: empty (a new
\* process), or set by the last call that ended, whose turn is the newest of
\* hist that carries a session id, or is gone from hist with every older one
InitialSessionStores(hist) ==
    {Cached(NoHandle)}
    \cup {Cached(h) : h \in {g \in Handles : getSessionId(hist, Cached(g), AllowedChat) = g}}

\* one call addToHistory(role, content, chatId, sessionId), the n-th
AppendTurn(n, c, sid) ==
    /\ n = nextUpdate
    /\ n <= MaxAppends
    /\ nextUpdate' = nextUpdate + 1
    /\ history' = addToHistory(history, "assistant", "", c, sid, n)
    /\ turns' = Append(turns, Message("assistant", "", c, sid, n))
    /\ UNCHANGED <<sessionStore, handlers>>
    /\ UNCHANGED <<alertVars, cronVars, heartbeatVars, loadVars>>

---------------------------------------------------------------------------
(* The load functions on their own *)

\* what a reader can find in the place of the backing file of store s
FilesOf(s) ==
    {File("missing", Nothing(s)), File("corrupt", Nothing(s))}
    \cup IF s = "history" THEN {File("valid", <<>>), File("valid", <<HandleTurn>>)}
         ELSE IF s = "cron" THEN {File("valid", <<>>), File("valid", <<DisabledJob>>)}
         ELSE {File("valid", clock)}

\* the backing file of store s is found to be f
Found(s, f) ==
    /\ files' = [files EXCEPT ![s] = f]
    /\ UNCHANGED loaded
    /\ UNCHANGED <<chatVars, alertVars, cronVars, heartbeatVars>>

\* the load function of store s is called
Load(s) ==
    /\ loaded' = [loaded EXCEPT ![s] = <<load(s, files[s], clock)>>]
    /\ UNCHANGED files
    /\ UNCHANGED <<chatVars, alertVars, cronVars, heartbeatVars>>

---------------------------------------------------------------------------
(* Writers of the whole-state stores *)

\* a HEARTBEAT.md with two directives, whose jobs have different ids
TwoJobs == <<Directive("0 8 * * *", TaskCheckEmail), Directive("0 8 * * *", TaskBrief)>>

---------------------------------------------------------------------------
(* Specifications *)

\* the state of a process that has not started its subsystems, history.jsonl,
\* cron-state.json and the session Map apart
InitRest ==
    /\ nextUpdate = 1
    /\ handlers = [h \in Updates |-> IdleHandler]
    /\ alertsExists = FALSE
    /\ alertsFile = <<>>
    /\ nextAlert = 1
    /\ nextSweep = 1
    /\ sweeps = [s \in Sweeps |-> IdleSweep]
    /\ delivered = <<>>
    /\ checklist = <<>>
    /\ scheduled = <<>>
    /\ nextRun = 1
    /\ runs = [r \in AllRuns |-> IdleRun]
    /\ clock = 1
    /\ heartbeatState = File("missing", Never)
    /\ nextBeat = 1
    /\ beats = [b \in Beats |-> IdleBeat]
    /\ files = NoFiles
    /\ loaded = NothingLoaded

\* the volatile state of a new process, and the files other than
\* cron-state.json as a first run finds them
InitVolatile ==
    /\ InitRest
    /\ history = <<>>
    /\ turns = <<>>
    /\ sessionStore = [c \in Chats |-> NoHandle]

\* a first run: no cron-state.json
Init == InitVolatile /\ cronJobs = <<>>

\* a run that finds a cron-state.json left by earlier runs
InitStored == InitVolatile /\ cronJobs \in InitialStores

NextChat ==
    \E h \in Updates :
        \/ \E c \in Chats : ResetCommand(h, c)
        \/ \E c \in Chats, t \in Texts : TextMessage(h, c, t)
        \/ \E sid \in Handles \cup {NoHandle}, block \in StreamBlocks, frag \in Fragments :
              StreamElement(h, sid, block, frag)
        \/ StreamFail(h)
        \/ StreamEnd(h)
        \/ ReplyDone(h)
        \/ ReplyFail(h)

SpecChat == Init /\ [][NextChat]_vars

NextAlert ==
    \/ AppendAlert
    \/ \E s \in Sweeps :
          \/ SweepFire(s)
          \/ SendDelivered(s)
          \/ SendDeliveredTruncateFails(s)
          \/ SendFails(s)

SpecAlert == Init /\ [][NextAlert]_vars

NextCron ==
    \/ \E doc \in Docs : setupCronJobs(doc)
    \/ \E r \in Runs :
          \/ \E k \in 1..Len(scheduled) : CronFire(r, k)
          \/ CronComplete(r)
          \/ CronFail(r)

SpecCron == InitStored /\ [][NextCron]_vars

\* a process that finds a history.jsonl left by earlier runs
InitHistory ==
    /\ InitRest
    /\ history \in InitialHistories
    /\ turns = history
    /\ sessionStore \in InitialSessionStores(history)
    /\ cronJobs = <<>>

NextHistory ==
    \E n \in 1..MaxAppends, c \in Chats, sid \in Handles \cup {NoHandle} :
        AppendTurn(n, c, sid)

SpecHistory == InitHistory /\ [][NextHistory]_vars

\* message handlers that reach the end of their stream, and overlapping runs
\* of the two cron jobs
NextWriters ==
    \/ \E h \in Updates :
          \/ TextMessage(h, AllowedChat, "hello")
          \/ StreamElement(h, "s1", "none", "hi")
          \/ StreamEnd(h)
          \/ ReplyDone(h)
    \/ setupCronJobs(TwoJobs)
    \/ \E r \in OverlappingRuns :
          \/ \E k \in 1..Len(scheduled) : CronFire(r, k)
          \/ CronComplete(r)
          \/ CronFail(r)

SpecWriters == Init /\ [][NextWriters]_vars

NextLoad ==
    \E s \in Stores :
        \/ \E f \in FilesOf(s) : Found(s, f)
        \/ Load(s)

SpecLoad == Init /\ [][NextLoad]_vars

NextHeartbeat ==
    \/ \E h \in Updates, c \in Chats : HeartbeatCommand(h, c)
    \/ \E b \in Beats :
          \/ \E caller \in {Timer} \cup Updates, present \in BOOLEAN :
                HeartbeatFire(b, caller, present)
          \/ HeartbeatComplete(b)
          \/ HeartbeatFail(b)
    \/ HeartbeatStateDamaged

SpecHeartbeat == Init /\ [][NextHeartbeat]_vars

\* inbound updates while time passes
NextProgress ==
    \/ NextChat
    \/ \E d \in Delays : Tick(d)

SpecProgress == Init /\ [][NextProgress]_vars

\* every inbound update: text messages and the four commands
NextCommands ==
    \/ NextChat
    \/ \E h \in Updates, c \in Chats :
          \/ StatusCommand(h, c)
          \/ CronCommand(h, c)
          \/ HeartbeatCommand(h, c)
    \/ \E b \in Beats :
          \/ \E caller \in Updates, present \in BOOLEAN : HeartbeatFire(b, caller, present)
          \/ HeartbeatComplete(b)
          \/ HeartbeatFail(b)

SpecCommands == Init /\ [][NextCommands]_vars

---------------------------------------------------------------------------
(* Claims about inbound updates, checked under SpecChat *)

\* the handler of update h is inside getAgentResponse
InFlight(h) == handlers[h].pc \in {"stream", "reply"}

\* the step is the reset handler of update h, run for an allowed chat
ResetStep(h) ==
    /\ handlers[h].pc = "idle"
    /\ handlers'[h].kind = "reset"
    /\ handlers'[h].reply = "Session cleared."

\* the step is the end of the stream of update h
StreamEndStep(h) == handlers[h].pc = "stream" /\ handlers'[h].pc = "reply"

\* the step is the normal return of the handler of update h
ReplyDoneStep(h) == handlers[h].pc = "reply" /\ handlers'[h].pc = "done"

LastTurn(hist) == hist[Len(hist)]

\* C1: for every conversation at most one getAgentResponse call is active at
\* any time: two updates whose handlers are both inside getAgentResponse
\* belong to different conversations.
C1_OneActiveCallPerConversation ==
    \A h1, h2 \in Updates :
        (h1 # h2 /\ InFlight(h1) /\ InFlight(h2))
            => handlers[h1].chatId # handlers[h2].chatId

\* C2: the turns of one conversation follow arrival order: no turn produced
\* by a later message precedes a turn produced by an earlier message.
C2_TurnsFollowArrivalOrder ==
    \A i, j \in 1..Len(history) :
        (i < j /\ history[i].chatId = history[j].chatId)
            => history[i].by <= history[j].by

\* C6: right after clear(conversationId) by the reset command a session
\* lookup for that conversation returns no handle, also when History still
\* holds turns of the conversation that carry one.
C6_LookupAfterResetIsEmpty ==
    [][\A h \in Updates :
          ResetStep(h)
             => getSessionId(history', sessionStore', handlers'[h].chatId) = NoHandle]_vars

\* C7 as stated: when a call with input U, final text T and session handle H
\* completes, History holds a user turn U and an assistant turn with content T
\* carrying H, the registry resolves the conversation to H, the reply is T.
C7_HandleOnResponseTurn ==
    [][\A h \in Updates :
          (ReplyDoneStep(h) /\ handlers[h].currentSessionId # NoHandle)
             => LET me == handlers[h] IN
                /\ \E i \in 1..Len(history') :
                      /\ history'[i].role = "user"
                      /\ history'[i].content = me.text
                      /\ history'[i].chatId = me.chatId
                /\ \E i \in 1..Len(history') :
                      /\ history'[i].role = "assistant"
                      /\ history'[i].content = me.finalResponse
                      /\ history'[i].sessionId = me.currentSessionId
                      /\ history'[i].chatId = me.chatId
                /\ getSessionId(history', sessionStore', me.chatId) = me.currentSessionId
                /\ handlers'[h].reply = me.finalResponse]_vars

\* C7 as amended: when the stream of a call that observed handle H ends, the
\* Map is set to H, an assistant turn with empty content carrying H is
\* appended and a lookup resolves to H; when the call then returns, the reply
\* sent is "JARVIS: " followed by T ("Done." when T is empty) and the last
\* two turns of History are the user turn U and an assistant turn with that
\* text, neither carrying a handle.
C7_HandleOnSeparateTurn ==
    [][\A h \in Updates :
          LET me == handlers[h]
              out == IF me.finalResponse = "" THEN "Done." ELSE me.finalResponse
              n == Len(history')
          IN
          /\ (StreamEndStep(h) /\ me.currentSessionId # NoHandle)
                => /\ n >= 1
                   /\ LastTurn(history') =
                         [role |-> "assistant", content |-> "", chatId |-> me.chatId,
                          sessionId |-> me.currentSessionId, by |-> h]
                   /\ sessionStore'[me.chatId] = me.currentSessionId
                   /\ getSessionId(history', sessionStore', me.chatId) = me.currentSessionId
          /\ ReplyDoneStep(h)
                => /\ handlers'[h].reply = "JARVIS: " \o out
                   /\ n >= 2
                   /\ history'[n - 1] =
                         [role |-> "user", content |-> me.text, chatId |-> me.chatId,
                          sessionId |-> NoHandle, by |-> h]
                   /\ history'[n] =
                         [role |-> "assistant", content |-> out, chatId |-> me.chatId,
                          sessionId |-> NoHandle, by |-> h]]_vars

\* C7 witness: a call that observed a handle and produced no text has
\* returned; its three turns are in History and "JARVIS: Done." was sent.
C7_Witness ==
    \E h \in Updates :
        /\ handlers[h].pc = "done"
        /\ handlers[h].kind = "text"
        /\ handlers[h].reply = "JARVIS: Done."
        /\ Len(history) >= 3
        /\ \E i \in 1..Len(history) :
              history[i].by = h /\ history[i].sessionId \in Handles

\* the step is the failure of the stream of update h
StreamFailStep(h) == handlers[h].pc = "stream" /\ handlers'[h].pc = "failed"

\* the turns appended by the handler of update h
TurnsBy(h) == {i \in 1..Len(turns) : turns[i].by = h}

\* C19: when the stream of the call for a text message throws before it
\* ends, the handler replies "JARVIS: Error occurred." and the call leaves no
\* trace: the session Map is not updated, also when the stream had yielded a
\* session id, and no turn is appended for the message, then or later.
C19_FailedStreamLeavesNoTrace ==
    [][\A h \in Updates :
          /\ StreamFailStep(h) =>
                /\ handlers'[h].reply = ErrorReply
                /\ UNCHANGED <<history, turns, sessionStore>>
          /\ (handlers[h].pc = "failed" /\ handlers[h].currentSessionId # NoHandle) =>
                /\ TurnsBy(h)' = {}
                /\ handlers'[h] = handlers[h]]_vars

\* a call that had seen session id "s1" failed in its stream; the Map holds
\* nothing for the chat and History holds no turn
C19_Witness ==
    \E h \in Updates :
       /\ handlers[h].pc = "failed"
       /\ handlers[h].currentSessionId = "s1"
       /\ handlers[h].reply = ErrorReply
       /\ sessionStore[handlers[h].chatId] = NoHandle
       /\ history = <<>>

\* C21: whenever the session Map holds a session id for a chat, getSessionId
\* for that chat returns it: the id found by scanning History never differs
\* from a cached one, whatever calls have ended and resets have run.
C21_CachedHandleIsLookupResult ==
    \A c \in Chats :
       sessionStore[c] # NoHandle
          => getSessionId(history, sessionStore, c) = sessionStore[c]

\* two calls for the chat have ended with different session ids; History
\* holds a turn for each, the Map holds the later one and so does the lookup
C21_Witness ==
    /\ \E i, j \in 1..Len(history) :
          /\ i < j
          /\ history[i].chatId = AllowedChat
          /\ history[j].chatId = AllowedChat
          /\ history[i].sessionId \in Handles
          /\ history[j].sessionId \in Handles \ {history[i].sessionId}
    /\ sessionStore[AllowedChat] # NoHandle
    /\ getSessionId(history, sessionStore, AllowedChat) = sessionStore[AllowedChat]

---------------------------------------------------------------------------
(* Claims about the alert mailbox, checked under SpecAlert *)

Range(seq) == {seq[i] : i \in 1..Len(seq)}

\* the messages that carried alert a
DeliveriesOf(a) == {k \in 1..Len(delivered) : a \in Range(delivered[k])}

\* C3: a sweep whose send fails leaves the mailbox as it was: the content is
\* available to the next sweep.
C3_FailedSendKeepsMailbox ==
    [][\A s \in Sweeps :
          (sweeps[s].pc = "sending" /\ sweeps'[s].pc = "failed")
             => (alertsFile' = alertsFile /\ alertsExists' = alertsExists)]_vars

\* C4: as long as no send has failed, every alert appended so far is in a
\* delivered message or still in the mailbox, also when it was appended
\* while a sweep was awaiting its send.
C4_NoAlertDiscarded ==
    (\A s \in Sweeps : sweeps[s].pc # "failed")
        => \A a \in 1..(nextAlert - 1) :
              a \in Range(alertsFile) \/ DeliveriesOf(a) # {}

\* C5: when every send and every truncation has succeeded, no alert has been
\* delivered more than once, also when sweeps overlap.
C5_NoDuplicateDelivery ==
    (\A s \in Sweeps : sweeps[s].pc \notin {"failed", "untruncated"})
        => \A a \in 1..(nextAlert - 1) : Cardinality(DeliveriesOf(a)) <= 1

\* the step starts sweep s on a mailbox that is not empty
SweepReads(s) == sweeps[s].pc = "idle" /\ sweeps'[s].pc = "sending"

\* the step is the success of the send of sweep s
SweepDelivers(s) ==
    sweeps[s].pc = "sending" /\ sweeps'[s].pc \in {"sent", "untruncated"}

\* a sweep reads the whole mailbox, and when its send succeeds the recipient
\* gets one message, which holds what was read, in append order
BatchedDelivery(s) ==
    /\ SweepReads(s) => sweeps'[s].alerts = alertsFile
    /\ SweepDelivers(s) => delivered' = Append(delivered, sweeps[s].alerts)

\* C16, as claimed: the alerts in the mailbox when a sweep starts are
\* delivered by it as one message, in append order, and after a sweep whose
\* send succeeded the mailbox is empty.
C16_BatchDeliveredMailboxEmpty ==
    [][\A s \in Sweeps :
          /\ BatchedDelivery(s)
          /\ SweepDelivers(s) => alertsFile' = <<>>]_vars

\* C16, amended: the alerts in the mailbox when a sweep starts are delivered
\* by it, when its send succeeds, as one message, in append order; after a
\* sweep whose send and whose truncating write both succeeded the mailbox is
\* empty.
C16_BatchDeliveredThenTruncated ==
    [][\A s \in Sweeps :
          /\ BatchedDelivery(s)
          /\ (SweepDelivers(s) /\ sweeps'[s].pc = "sent") => alertsFile' = <<>>]_vars

\* alerts 1 and 2 were appended before a sweep, which delivered them as one
\* message and left the mailbox empty
C16_Witness ==
    /\ delivered = <<(<<1, 2>>)>>
    /\ alertsFile = <<>>
    /\ \E s \in Sweeps : sweeps[s].pc = "sent"

---------------------------------------------------------------------------
(* Claims about reconciliation, checked under SpecCron *)

\* the step is a run of setupCronJobs (on the document checklist' it read)
ReconcileStep == setupCronJobs(checklist')

\* C8: reconciliation is idempotent: whatever documents have been
\* reconciled, identical task text has materialised at most one job, so no
\* two jobs of the Schedule Store have the same task text (and id).
C8_OneJobPerTaskText ==
    \A i, j \in 1..Len(cronJobs) :
        i # j => cronJobs[i].task # cronJobs[j].task

\* C9: two directives of the reconciled document with the same trigger
\* expression and different task texts have materialised two jobs with
\* different ids, both in the Schedule Store.
C9_DifferentTasksDifferentJobs ==
    \A a, b \in 1..Len(checklist) :
        (checklist[a].schedule = checklist[b].schedule
            /\ checklist[a].task # checklist[b].task)
        => \E i, j \in 1..Len(cronJobs) :
              /\ cronJobs[i].task = checklist[a].task
              /\ cronJobs[j].task = checklist[b].task
              /\ cronJobs[i].id # cronJobs[j].id

\* C10: reconciliation only adds jobs: every job of the Schedule Store is,
\* after setupCronJobs, still there at its place with the same id, trigger
\* expression, task text, enabled flag and lastRun, whether or not the
\* document still holds its directive.
C10_ReconciliationOnlyAdds ==
    [][ReconcileStep
          => /\ Len(cronJobs') >= Len(cronJobs)
             /\ \A i \in 1..Len(cronJobs) : cronJobs'[i] = cronJobs[i]]_vars

\* C10 witness: a job that has run is scheduled again by a later
\* reconciliation whose document no longer holds its directive, and still
\* carries its lastRun.
C10_Witness ==
    \E i \in 1..Len(cronJobs), k \in 1..Len(scheduled) :
        /\ cronJobs[i].lastRun # Never
        /\ scheduled[k] = cronJobs[i]
        /\ \A a \in 1..Len(checklist) : checklist[a].task # cronJobs[i].task

---------------------------------------------------------------------------
(* Claims about the load functions, checked under SpecLoad *)

\* the step is a call of the load function of store s
Loads(s) == loaded'[s] # loaded[s]

\* C18: a backing file of the history, the cron state or the heartbeat state
\* that is missing or cannot be parsed is read as the empty or default state
\* (no turns, no jobs, lastRun now); the load function does not throw.
C18_MissingOrCorruptReadsAsDefault ==
    [][\A s \in Stores :
          (Loads(s) /\ files[s].state \in {"missing", "corrupt"})
             => /\ ~loaded'[s][1].threw
                /\ loaded'[s][1].value = IF s = "heartbeat" THEN clock ELSE <<>>]_vars

---------------------------------------------------------------------------
(* Claims about progress notifications, checked under SpecProgress *)

\* the step is an iteration of the stream loop of update h on a tool_use
\* block: the status message is sent or edited
NotifiesProgress(h) ==
    \E sid \in Handles \cup {NoHandle}, frag \in Fragments :
        StreamElement(h, sid, "tool_use", frag)

\* C17: during one call of getAgentResponse, a send or edit of the status
\* message for a tool_use block is at least 5 seconds after the previous one:
\* at most one progress notification in a window of 5 seconds.
C17_OneProgressNotificationPerWindow ==
    [][\A h \in Updates :
          (NotifiesProgress(h) /\ handlers[h].lastProgress # Never)
             => clock - handlers[h].lastProgress >= QuiescenceWindow]_vars

---------------------------------------------------------------------------
(* Claims about the history store, checked under SpecHistory *)

\* the positions of the turns of chat c that carry a session id
Carrying(hist, c) ==
    {i \in 1..Len(hist) : hist[i].chatId = c /\ hist[i].sessionId # NoHandle}

\* C14, as claimed: once a turn of chat c carrying handle h has been
\* appended, a lookup for c returns h, however many turns of other chats
\* have been appended since (no later turn of c carrying another handle).
C14_LookupReturnsAppendedHandle ==
    \A c \in Chats :
       LET at == Carrying(turns, c) IN
       (/\ at # {}
        /\ \A q \in (MaxOf(at) + 1)..Len(turns) : turns[q].chatId # c)
       => getSessionId(history, sessionStore, c) = turns[MaxOf(at)].sessionId

\* C14, amended: once a turn of chat c carrying handle h has been appended,
\* a lookup for c returns h as long as fewer than MAX_HISTORY turns (of any
\* chat, none of them a turn of c carrying another handle) have been appended
\* since.
C14_LookupReturnsRetainedHandle ==
    \A c \in Chats :
       LET at == Carrying(turns, c) IN
       (at # {} /\ Len(turns) - MaxOf(at) < MAX_HISTORY)
       => getSessionId(history, sessionStore, c) = turns[MaxOf(at)].sessionId

\* the turn carrying "s1" is the oldest one retained, turns of the other chat
\* (one of them carrying a handle) were appended since, the Map is empty and
\* the lookup returns "s1"
C14_Witness ==
    /\ Len(history) = MAX_HISTORY
    /\ history[1] = HandleTurn
    /\ Carrying(turns, OtherChat) # {}
    /\ sessionStore[AllowedChat] = NoHandle
    /\ getSessionId(history, sessionStore, AllowedChat) = "s1"

\* the last n elements of s
Last(s, n) == IF Len(s) > n THEN SubSeq(s, Len(s) - n + 1, Len(s)) ELSE s

\* C15: after every append History holds at most MAX_HISTORY turns, and they
\* are the most recent of the turns appended, in the order of their appends.
C15_HistoryIsMostRecentTurns ==
    /\ Len(history) <= MAX_HISTORY
    /\ history = Last(turns, MAX_HISTORY)

\* MAX_HISTORY + 2 turns have been appended
C15_Witness ==
    /\ Len(turns) = MAX_HISTORY + 2
    /\ Len(history) = MAX_HISTORY
    /\ history[MAX_HISTORY].by = 2

---------------------------------------------------------------------------
(* Claims about the allow-list, checked under SpecCommands *)

\* the step hands update h to its handler
Dispatched(h) == handlers[h].pc = "idle" /\ handlers'[h].pc # "idle"

\* C13: for every text message and every command (reset, status, heartbeat,
\* cron) from a chat that is not on the allow-list, the handler only replies
\* "Unauthorized." and returns: it never calls the agent, no turn is appended
\* and the session Map, heartbeat-state.json and cron-state.json (like every
\* other store) are left as they were.
C13_UnauthorizedOnlyReplies ==
    [][\A h \in Updates :
          Dispatched(h) /\ handlers'[h].chatId \notin ALLOWED_CHAT_IDS =>
             /\ handlers'[h].pc = "done"
             /\ handlers'[h].reply = "Unauthorized."
             /\ UNCHANGED <<history, turns, sessionStore, heartbeatState, cronJobs>>
             /\ UNCHANGED <<alertVars, cronVars, heartbeatVars, loadVars>>]_vars

\* an update from the other chat has been refused while the stores held a session
C13_Witness ==
    /\ sessionStore[AllowedChat] # NoHandle
    /\ history # <<>>
    /\ \E h \in Updates :
          /\ handlers[h].chatId = OtherChat
          /\ handlers[h].kind \in {"text", "reset", "status", "heartbeat", "cron"}
          /\ handlers[h].pc = "done"
          /\ handlers[h].reply = "Unauthorized."

\* the step ends run r of executeCronTask, whose agent call succeeded or failed
RunEnds(r) == runs[r].pc = "running" /\ runs'[r].pc \in {"done", "failed"}

\* C12: whenever a firing of a cron job ends, whether the agent call succeeded
\* or failed, the job of that id in cron-state.json holds the time of that
\* end as lastRun.
C12_JobLastRunUpdatedOnEveryFiring ==
    [][\A r \in Runs :
          RunEnds(r) =>
             \E i \in 1..Len(cronJobs') :
                /\ cronJobs'[i].id = runs[r].job.id
                /\ cronJobs'[i].lastRun = clock]_vars

---------------------------------------------------------------------------
(* Claims about heartbeat runs, checked under SpecHeartbeat *)

\* the step ends run b of runHeartbeat, which had invoked the agent
BeatEnds(b) == beats[b].pc = "running" /\ beats'[b].pc \in {"done", "failed"}

\* C11: whenever a heartbeat run that invoked the agent completes, whether
\* the agent call succeeded or raised, heartbeat-state.json holds the time of
\* that completion as lastRun.
C11_LastRunUpdatedOnEveryCompletion ==
    [][\A b \in Beats :
          BeatEnds(b) => heartbeatState' = File("valid", clock)]_vars

---------------------------------------------------------------------------
(* Claims about the writers of the stores, checked under SpecWriters *)

\* the turns the step passed to addToHistory
Appended == SubSeq(turns', Len(turns) + 1, Len(turns'))

\* the step is the end of the stream of run r
RunWrites(r) == runs[r].pc = "running" /\ runs'[r].pc = "done"

\* C20: no update of history.jsonl or cron-state.json is lost, however the
\* handlers and the cron runs interleave at their awaits: History after a
\* step is History before it followed by the turns the step appended (up to
\* the retention bound); no step removes a job or takes a job's lastRun
\* back, and the end of a run leaves its job's lastRun set to the time of
\* that end.
C20_NoLostUpdate ==
    [][/\ history' = Last(history \o Appended, MAX_HISTORY)
       /\ Len(cronJobs') >= Len(cronJobs)
       /\ \A i \in 1..Len(cronJobs) :
             /\ cronJobs'[i].id = cronJobs[i].id
             /\ cronJobs'[i].lastRun >= cronJobs[i].lastRun
       /\ \A r \in OverlappingRuns :
             RunWrites(r) =>
                \E i \in 1..Len(cronJobs') :
                   /\ cronJobs'[i].id = runs[r].job.id
                   /\ cronJobs'[i].lastRun = clock]_vars

\* the second run ended while the first was awaiting its stream, and the
\* second handler appended its turns while the first was awaiting its reply
C20_Witness ==
    /\ runs[1].pc = "running"
    /\ runs[2].pc = "done"
    /\ \E i \in 1..Len(cronJobs) : cronJobs[i].lastRun # Never
    /\ handlers[1].pc = "reply"
    /\ handlers[2].pc = "done"
    /\ TurnsBy(1) # {}
    /\ TurnsBy(2) # {}

\* the step is the firing of a cron callback as run r
RunFires(r) == runs[r].pc = "idle" /\ runs'[r].pc = "running"

\* C22: on every firing of a scheduled job, the last run quoted in the prompt
\* is the lastRun cron-state.json holds for that job at that moment; after a
\* firing has ended successfully the next firing in the same process quotes
\* the time of that end.
C22_PromptQuotesPersistedLastRun ==
    [][\A r \in OverlappingRuns :
          RunFires(r) =>
             \E i \in 1..Len(cronJobs) :
                /\ cronJobs[i].id = runs'[r].job.id
                /\ runs'[r].promptLastRun = cronJobs[i].lastRun]_vars

===========================================================================
